---------------------------- MODULE Spec2Model ----------------------------
(***************************************************************************)
(* A model of src/app.py: the FastAPI telephony (IVR) backend.             *)
(*                                                                         *)
(* Text is a sequence of one-character strings; a literal phrase of the    *)
(* source is one element of such a sequence (its wording is transliterated *)
(* to English), so an f-string is the concatenation of its pieces.        *)
(* Python's None is the value None below.  Time is time.time() in whole    *)
(* seconds, read from the clock `now`, which never runs backwards.         *)
(***************************************************************************)
EXTENDS Integers, Sequences, FiniteSets, TLC

VARIABLES
    now,              \* the clock read by time.time()
    state_rate_limit, \* app.state.rate_limit: ip -> list of timestamps
    state_cache,      \* app.state.cache: key -> <<value, timestamp>>
    gmaps,            \* the module-level gmaps client: TRUE when configured
    slot,             \* the requests in flight, one per slot
    hist,             \* ghost: per ip, the timestamps of every admitted call
    lastRL,           \* ghost: the rate_limit call just made
    lastSet,          \* ghost: per key, the latest set_cache
    lastGet,          \* ghost: the get_cache call just made
    retry             \* a retry_request(func) call: its position and its record

vars == <<now, state_rate_limit, state_cache, gmaps, slot, hist, lastRL,
          lastSet, lastGet, retry>>

-----------------------------------------------------------------------------
(* Values *)

None == <<"<None>">>

\* Python truthiness of an Optional[str]
Truthy(x) == x # None /\ x # <<>>

\* The platform's "field not provided" sentinel, "%val%"
Sentinel == <<"%", "v", "a", "l", "%">>

-----------------------------------------------------------------------------
(* Utilities (src/app.py 67-94) *)

\* "... (הטקסט קוצר)", its 16 characters letter for letter
TruncSuffix == <<".", ".", ".", " ", "(", "h", "t", "q", "s", "t", " ",
                 "q", "w", "c", "r", ")">>

smart_trim(text, limit) ==
    IF Len(text) <= limit THEN text ELSE SubSeq(text, 1, limit) \o TruncSuffix

forbidden == << <<"x", "x", "x">>, <<"b", "a", "d", "w", "o", "r", "d">> >>

UpperCase == <<"X", "B", "A", "D", "W", "O", "R">>
LowerCase == <<"x", "b", "a", "d", "w", "o", "r">>

\* str.lower() on one character
LowerChar(c) ==
    IF \E i \in 1..Len(UpperCase) : UpperCase[i] = c
    THEN LowerCase[CHOOSE i \in 1..Len(UpperCase) : UpperCase[i] = c]
    ELSE c

lower(text) == [i \in 1..Len(text) |-> LowerChar(text[i])]

\* Python's `word in text` on strings
Contains(text, word) ==
    \E i \in 1..(Len(text) - Len(word) + 1) :
        SubSeq(text, i, i + Len(word) - 1) = word

is_safe(text) ==
    LET lowered == lower(text)
    IN  ~ \E k \in 1..Len(forbidden) : Contains(lowered, forbidden[k])

limit == 30
window == 60
TTL == 60

\* records = app.state.rate_limit.setdefault(ip, [])
Records(rl, ip) == IF ip \in DOMAIN rl THEN rl[ip] ELSE <<>>

PrunedKeepsBoundary(records, t, w) == SelectSeq(records, LAMBDA x : t - x <= w)

\* records[:] = [t for t in records if now - t < window]
Pruned(records, t, w) == SelectSeq(records, LAMBDA x : t - x < w)

RateLimitRaisesOffByOne(rl, ip, t, lim, w) ==
    Len(Pruned(Records(rl, ip), t, w)) > lim

\* if len(records) >= limit: raise HTTPException(429)
RateLimitRaises(rl, ip, t, lim, w) ==
    Len(Pruned(Records(rl, ip), t, w)) >= lim

RateLimitOverwrites(rl, ip, t, lim, w) ==
    [k \in DOMAIN rl \cup {ip} |->
        IF k # ip THEN rl[k]
        ELSE IF RateLimitRaises(rl, ip, t, lim, w)
             THEN Pruned(Records(rl, ip), t, w) ELSE <<t>>]

\* app.state.rate_limit after rate_limit(ip) at time t
rate_limit(rl, ip, t, lim, w) ==
    LET pruned == Pruned(Records(rl, ip), t, w)
        after  == IF RateLimitRaises(rl, ip, t, lim, w)
                  THEN pruned ELSE Append(pruned, t)
    IN  [k \in DOMAIN rl \cup {ip} |-> IF k = ip THEN after ELSE rl[k]]

CacheExpiredAtTTL(item, t) == t - item[2] >= TTL

\* if time.time() - timestamp > 60
CacheExpired(item, t) == t - item[2] > TTL

\* the value get_cache(key) returns at time t
get_cache(c, key, t) ==
    IF key \notin DOMAIN c THEN None
    ELSE IF CacheExpired(c[key], t) THEN None
    ELSE c[key][1]

GetCacheSweeps(c, key, t) ==
    IF key \in DOMAIN c /\ CacheExpired(c[key], t)
    THEN [k \in {j \in DOMAIN c : ~CacheExpired(c[j], t)} |-> c[k]]
    ELSE c

\* app.state.cache after get_cache(key) at time t
get_cache_state(c, key, t) ==
    IF key \in DOMAIN c /\ CacheExpired(c[key], t)
    THEN [k \in DOMAIN c \ {key} |-> c[k]]
    ELSE c

\* app.state.cache after set_cache(key, value) at time t
set_cache(c, key, value, t) ==
    [k \in DOMAIN c \cup {key} |-> IF k = key THEN <<value, t>> ELSE c[k]]

-----------------------------------------------------------------------------
(* Requests and responses *)

IvrPath == "/ivr"

\* "/ivr" in str(request.url); no query of the model holds a "/", so the
\* test on the whole URL is the test on its path
IsIvrUrl(req) == req.path = IvrPath

NoReq == [path |-> "", ip |-> "", ApiPhone |-> <<>>, DTMF |-> None,
          search_query |-> None, hangup |-> "", query |-> None]

NoResp == [status |-> 0, body |-> <<>>]

PlainTextResponse(body) == [status |-> 200, body |-> body]
JSONResponse(status, body) == [status |-> status, body |-> <<"json">> \o body]
\* an HTTPException that leaves the application
Raised(status, detail) == [status |-> status, body |-> <<"raise", detail>>]

TooManyMsg == <<"id_list_message=t-", "request quota exceeded, try again later">>
SystemErrorMsg == <<"id_list_message=t-", "a system error occurred, please try again.">>
MenuText == <<"read=t-", "hello. navigation 2. youtube 3. spotify 4. ai 5.",
              "=DTMF,yes,1,1,1,Digits,no">>
\* the digits the menu offers (lines 186-190)
MenuDigits == { <<"2">>, <<"3">>, <<"4">>, <<"5">> }
InvalidChoiceMsg == <<"id_list_message=t-", "invalid selection. goodbye.">>
BackToMenuMsg == <<"id_list_message=t-", "back to the main menu.">>
NoYoutubeResultsMsg == <<"id_list_message=t-", "no results found on youtube.">>
NoLocationServiceMsg == <<"id_list_message=t-", "the location service is not configured.">>
PlaceNotFoundMsg == <<"id_list_message=t-", "the requested place was not found.">>

SpeechCapture == "=search_query,no,he,1,5,7&DTMF="

SpeechPromptFixedDigit(text, d) == <<"read=t-", text, SpeechCapture>> \o <<"2">>

\* f"read=t-{text}=search_query,no,he,1,5,7&DTMF={DTMF}"
SpeechPrompt(text, d) == <<"read=t-", text, SpeechCapture>> \o d

NoAudioLinkMsg(title) ==
    <<"id_list_message=t-", "cannot produce a playable link for ">> \o title \o <<".">>
PlayFile(url) == <<"playfile=">> \o url
PlaceFoundMsg(name, address) ==
    <<"id_list_message=t-", "found ">> \o name \o <<" at address ">> \o address \o <<".">>

TrimLimit == 400
TitleLimit == 100

\* f"תשובת המערכת עבור {search_query}: השירות בבדיקה.", letter for letter
AiReplyText(search_query) ==
    <<"t", "s", "w", "b", "t", " ", "h", "m", "e", "r", "k", "t", " ",
      "e", "b", "w", "r", " ">>
    \o search_query
    \o <<":", " ", "h", "s", "y", "r", "w", "t", " ", "b", "b", "d", "y", "q", "h", ".">>

AiReply(search_query) ==
    <<"id_list_message=t-">> \o smart_trim(AiReplyText(search_query), TrimLimit)

\* what the providers hand back
Title == <<"T">>
VideoId == <<"v">>
AudioUrl == <<"u">>
PlaceName == <<"N">>
PlaceAddress == <<"A">>

-----------------------------------------------------------------------------
(* The /ivr handler (src/app.py 165-244), cut at its awaits *)

NormalizeKeepsSentinel(x) == IF ~Truthy(x) THEN None ELSE x

\* if not DTMF or DTMF == "%val%": DTMF = None
Normalize(x) == IF ~Truthy(x) \/ x = Sentinel THEN None ELSE x

Returns(sl, directive) ==
    [sl EXCEPT !.pc = "done", !.resp = PlainTextResponse(directive)]

Awaits(sl, provider, arg) ==
    [sl EXCEPT !.pc = provider, !.calls = Append(@, <<provider, arg>>)]

HangupComparesTrue(req) == req.hangup = "true"

\* if hangup == "yes"
HangupRequested(req) == req.hangup = "yes"

AwaitingSpeechPromptsAnyDigit(sl, DTMF) ==
    Returns(sl, SpeechPrompt("say a destination", DTMF))

\* step 2, lines 194-204
AwaitingSpeech(sl, DTMF) ==
    CASE DTMF = <<"2">> -> Returns(sl, SpeechPrompt("say a destination", DTMF))
      [] DTMF = <<"3">> -> Returns(sl, SpeechPrompt("say a song name for youtube", DTMF))
      [] DTMF = <<"4">> -> Returns(sl, SpeechPrompt("say a song name for spotify", DTMF))
      [] DTMF = <<"5">> -> Returns(sl, SpeechPrompt("say a question for the ai", DTMF))
      [] OTHER -> Returns(sl, InvalidChoiceMsg)

\* step 3, lines 207-244, up to the first await
Executing(sl, DTMF, search_query, gm) ==
    CASE DTMF = <<"3">> -> Awaits(sl, "search_youtube", search_query)
      [] DTMF = <<"2">> ->
            IF ~gm THEN Returns(sl, NoLocationServiceMsg)
            ELSE Awaits(sl, "places", search_query)
      [] DTMF = <<"5">> -> Returns(sl, AiReply(search_query))
      [] OTHER -> Returns(sl, BackToMenuMsg)

IsMenuWrongTest(DTMF, search_query) == DTMF = None /\ search_query # None

\* step 1, line 184: if DTMF is None and search_query is None
IsMenu(DTMF, search_query) == DTMF = None /\ search_query = None

\* the handler from its entry to its return or first await
ivr(sl, gm) ==
    LET DTMF == Normalize(sl.req.DTMF)
        search_query == Normalize(sl.req.search_query)
    IN  IF HangupRequested(sl.req) THEN Returns(sl, <<>>)
        ELSE IF IsMenu(DTMF, search_query) THEN Returns(sl, MenuText)
        ELSE IF Truthy(DTMF) /\ search_query = None THEN AwaitingSpeech(sl, DTMF)
        ELSE IF Truthy(search_query) THEN Executing(sl, DTMF, search_query, gm)
        ELSE Returns(sl, BackToMenuMsg)

-----------------------------------------------------------------------------
(* The other endpoints (src/app.py 253-284, 308-315) *)

InvalidContent == JSONResponse(400, <<"invalid content">>)

Responds(sl, resp) == [sl EXCEPT !.pc = "done", !.resp = resp]

\* /search up to its await
search(sl) ==
    IF ~is_safe(sl.req.query) THEN Responds(sl, InvalidContent)
    ELSE Awaits(sl, "search_youtube", sl.req.query)

\* /chat
chat(sl) ==
    IF ~is_safe(sl.req.query) THEN Responds(sl, InvalidContent)
    ELSE Responds(sl, JSONResponse(200,
            smart_trim(<<"reply for: ">> \o sl.req.query, TrimLimit)))

\* /location/search up to its await
find_place(sl, gm) ==
    IF ~gm THEN Responds(sl, JSONResponse(500, <<"Google Maps API key not set">>))
    ELSE Awaits(sl, "places", sl.req.query)

call_next(sl, gm) ==
    CASE sl.req.path = IvrPath -> ivr(sl, gm)
      [] sl.req.path = "/search" -> search(sl)
      [] sl.req.path = "/chat" -> chat(sl)
      [] sl.req.path = "/location/search" -> find_place(sl, gm)

-----------------------------------------------------------------------------
(* The middleware (src/app.py 109-130) *)

ThrottledRunsHandler(sl, gm) == call_next(sl, gm)

\* except HTTPException around rate_limit(client_ip), lines 117-120
Throttled(sl, gm) ==
    IF IsIvrUrl(sl.req) THEN Returns(sl, TooManyMsg)
    ELSE Responds(sl, Raised(429, "Too many requests"))

UnhandledPropagates(sl) == Responds(sl, Raised(500, "Internal Server Error"))

\* except Exception around call_next(request), lines 125-130
Unhandled(sl) ==
    IF IsIvrUrl(sl.req) THEN Returns(sl, SystemErrorMsg)
    ELSE Responds(sl, JSONResponse(500, <<"Server error">>))

MiddlewareGreetsNewCaller(req, rl, t, gm) ==
    LET raises == RateLimitRaises(rl, req.ip, t, limit, window)
        sl == [pc |-> "idle", req |-> req, resp |-> NoResp, calls |-> <<>>,
               admitted |-> ~raises, title |-> <<>>, fault |-> "", replies |-> <<>>]
    IN  IF raises THEN Throttled(sl, gm)
        ELSE IF Records(rl, req.ip) = <<>> /\ IsIvrUrl(req) THEN Returns(sl, MenuText)
        ELSE call_next(sl, gm)

\* the request from its arrival to its response or first await
global_middleware(req, rl, t, gm) ==
    LET raises == RateLimitRaises(rl, req.ip, t, limit, window)
        sl == [pc |-> "idle", req |-> req, resp |-> NoResp, calls |-> <<>>,
               admitted |-> ~raises, title |-> <<>>, fault |-> "", replies |-> <<>>]
    IN  IF raises THEN Throttled(sl, gm) ELSE call_next(sl, gm)

-----------------------------------------------------------------------------
(* The handlers after their awaits *)

YoutubeOutcomes == {"raise", "caught", "empty", "hit"}
AudioOutcomes == {"raise", "caught", "ok"}
PlacesOutcomes == {"raise", "empty", "hit"}

\* search_youtube (lines 136-147): an exception inside its try is logged and
\* None is returned; one outside it (the YoutubeDL context) leaves the function
YoutubeReturnsNone(o) == o \in {"caught", "empty"}

\* ivr lines 210-224 and search lines 258-267, after await search_youtube(..)
AfterSearchYoutube(sl, o) ==
    IF o = "raise" THEN Unhandled(sl)
    ELSE IF sl.req.path = IvrPath
    THEN IF YoutubeReturnsNone(o) THEN Returns(sl, NoYoutubeResultsMsg)
         ELSE Awaits([sl EXCEPT !.title = smart_trim(Title, TitleLimit)],
                     "extract_audio_info", VideoId)
    ELSE IF YoutubeReturnsNone(o)
         THEN Responds(sl, JSONResponse(200, <<"no results found">>))
         ELSE Responds(sl, JSONResponse(200, <<"found: ">> \o Title \o <<".">>))

\* ivr lines 214-222, after await extract_audio_info(video_id); the function
\* (lines 149-159) turns an exception inside its try into {"error": ..}
AfterExtractAudio(sl, o) ==
    CASE o = "raise" -> Unhandled(sl)
      [] o = "ok" -> Returns(sl, PlayFile(AudioUrl))
      [] o = "caught" -> Returns(sl, NoAudioLinkMsg(sl.title))

\* ivr lines 231-237 and find_place lines 314-315, after gmaps.places(..)
AfterPlaces(sl, o) ==
    IF o = "raise" THEN Unhandled(sl)
    ELSE IF sl.req.path = IvrPath
    THEN IF o = "hit" THEN Returns(sl, PlaceFoundMsg(PlaceName, PlaceAddress))
         ELSE Returns(sl, PlaceNotFoundMsg)
    ELSE Responds(sl, JSONResponse(200,
            IF o = "hit" THEN PlaceName \o PlaceAddress ELSE <<>>))

-----------------------------------------------------------------------------
(* The inputs *)

MaxNow == 120

Slots == {1, 2}
IPs == {"10.0.0.1", "10.0.0.2"}
Keys == {"k1", "k2"}
Values == {<<"a">>, <<"b">>}

Song == <<"h", "i">>
Blocked == <<"a", "X", "x", "X">>

Phones == {<<>>, <<"0", "5">>}
DTMFs == {None, <<>>, Sentinel, <<"2">>, <<"3">>, <<"4">>, <<"5">>, <<"9">>}
SpokenTexts == {None, <<>>, Sentinel, Song, Blocked}
Hangups == {"", "yes"}

IvrRequests(ips) ==
    [path : {IvrPath}, ip : ips, ApiPhone : Phones, DTMF : DTMFs,
     search_query : SpokenTexts, hangup : Hangups, query : {None}]

QueryRequests(ips) ==
    [path : {"/search", "/chat", "/location/search"}, ip : ips,
     ApiPhone : {<<>>}, DTMF : {None}, search_query : {None}, hangup : {""},
     query : {Song, Blocked}]

IdleSlot == [pc |-> "idle", req |-> NoReq, resp |-> NoResp, calls |-> <<>>,
             admitted |-> FALSE, title |-> <<>>, fault |-> "", replies |-> <<>>]

-----------------------------------------------------------------------------
(* The state machine *)

\* no retry_request call is running
IdleRetry == [pc |-> "idle", attempt |-> 0, outcomes |-> <<>>, sleeps |-> <<>>,
              result |-> None]

\* lifespan (lines 30-33) and the module-level gmaps client (line 50)
Init ==
    /\ now = 0
    /\ state_rate_limit = << >>
    /\ state_cache = << >>
    /\ gmaps \in BOOLEAN
    /\ slot = [s \in Slots |-> IdleSlot]
    /\ hist = [ip \in IPs |-> <<>>]
    /\ lastRL = [ip |-> "", raised |-> FALSE]
    /\ lastSet = [k \in Keys |-> None]
    /\ lastGet = [key |-> "", data |-> None]
    /\ retry = IdleRetry

\* time passes
Tick(d) ==
    /\ now + d <= MaxNow
    /\ now' = now + d
    /\ lastRL' = [ip |-> "", raised |-> FALSE]
    /\ lastGet' = [key |-> "", data |-> None]
    /\ UNCHANGED <<state_rate_limit, state_cache, gmaps, retry, slot, hist, lastSet>>

\* a request arrives: the middleware and the handler, to the first await
Receive(s, req) ==
    /\ slot[s].pc = "idle"
    /\ state_rate_limit' = rate_limit(state_rate_limit, req.ip, now, limit, window)
    /\ slot' = [slot EXCEPT ![s] = global_middleware(req, state_rate_limit, now, gmaps)]
    /\ UNCHANGED <<now, state_cache, gmaps, retry, hist, lastRL, lastSet, lastGet>>

\* ghost: the reply of the provider call, and whether the call raised
\* ("raise": out of its wrapper, "caught": inside)
Faulted(sl, o) ==
    [sl EXCEPT !.fault = IF o \in {"raise", "caught"} THEN o ELSE @,
               !.replies = Append(@, o)]

SearchYoutubeReturns(s, o) ==
    /\ slot[s].pc = "search_youtube"
    /\ slot' = [slot EXCEPT ![s] = AfterSearchYoutube(Faulted(slot[s], o), o)]
    /\ UNCHANGED <<now, state_rate_limit, state_cache, gmaps, retry, hist, lastRL,
                   lastSet, lastGet>>

ExtractAudioReturns(s, o) ==
    /\ slot[s].pc = "extract_audio_info"
    /\ slot' = [slot EXCEPT ![s] = AfterExtractAudio(Faulted(slot[s], o), o)]
    /\ UNCHANGED <<now, state_rate_limit, state_cache, gmaps, retry, hist, lastRL,
                   lastSet, lastGet>>

PlacesReturns(s, o) ==
    /\ slot[s].pc = "places"
    /\ slot' = [slot EXCEPT ![s] = AfterPlaces(Faulted(slot[s], o), o)]
    /\ UNCHANGED <<now, state_rate_limit, state_cache, gmaps, retry, hist, lastRL,
                   lastSet, lastGet>>

\* the response leaves; the slot is free again
Respond(s) ==
    /\ slot[s].pc = "done"
    /\ slot' = [slot EXCEPT ![s] = IdleSlot]
    /\ UNCHANGED <<now, state_rate_limit, state_cache, gmaps, retry, hist, lastRL,
                   lastSet, lastGet>>

\* the server, one request at a time
Next ==
    \/ Tick(window)
    \/ \E req \in IvrRequests({"10.0.0.1"}) \cup QueryRequests({"10.0.0.1"}) :
          Receive(1, req)
    \/ \E o \in YoutubeOutcomes : SearchYoutubeReturns(1, o)
    \/ \E o \in AudioOutcomes : ExtractAudioReturns(1, o)
    \/ \E o \in PlacesOutcomes : PlacesReturns(1, o)
    \/ Respond(1)

Spec == Init /\ [][Next]_vars

-----------------------------------------------------------------------------
(* rate_limit on its own *)

RateLimitCall(ip) ==
    LET raised == RateLimitRaises(state_rate_limit, ip, now, limit, window)
    IN  /\ state_rate_limit' = rate_limit(state_rate_limit, ip, now, limit, window)
        /\ hist' = [hist EXCEPT ![ip] = IF raised THEN @ ELSE Append(@, now)]
        /\ lastRL' = [ip |-> ip, raised |-> raised]
        /\ UNCHANGED <<now, state_cache, gmaps, retry, slot, lastSet, lastGet>>

NextThrottle ==
    \/ Tick(window - 1)
    \/ Tick(window)
    \/ RateLimitCall("10.0.0.1")

SpecThrottle == Init /\ [][NextThrottle]_vars

-----------------------------------------------------------------------------
(* The cache on its own *)

SetCache(key, value) ==
    /\ state_cache' = set_cache(state_cache, key, value, now)
    /\ lastSet' = [lastSet EXCEPT ![key] = <<value, now>>]
    /\ lastGet' = [key |-> "", data |-> None]
    /\ UNCHANGED <<now, state_rate_limit, gmaps, retry, slot, hist, lastRL>>

GetCache(key) ==
    /\ state_cache' = get_cache_state(state_cache, key, now)
    /\ lastGet' = [key |-> key, data |-> get_cache(state_cache, key, now)]
    /\ UNCHANGED <<now, state_rate_limit, gmaps, retry, slot, hist, lastRL, lastSet>>

NextCache ==
    \/ Tick(TTL)
    \/ Tick(TTL + 1)
    \/ \E k \in Keys, v \in Values : SetCache(k, v)
    \/ \E k \in Keys : GetCache(k)

SpecCache == Init /\ [][NextCache]_vars

-----------------------------------------------------------------------------
(* A request beside the same request with its sentinel fields omitted *)

\* the field omitted when it carries the sentinel or the empty string
Omitted(x) == IF x = Sentinel \/ x = <<>> THEN None ELSE x

Canon(req) ==
    [req EXCEPT !.DTMF = Omitted(@), !.search_query = Omitted(@)]

\* slot 1 takes the request, slot 2 the same request with the fields omitted,
\* both against the same app.state
TwinReceive(req) ==
    /\ slot[1].pc = "idle" /\ slot[2].pc = "idle"
    /\ state_rate_limit' = rate_limit(state_rate_limit, req.ip, now, limit, window)
    /\ slot' = [slot EXCEPT
                  ![1] = global_middleware(req, state_rate_limit, now, gmaps),
                  ![2] = global_middleware(Canon(req), state_rate_limit, now, gmaps)]
    /\ UNCHANGED <<now, state_cache, gmaps, retry, hist, lastRL, lastSet, lastGet>>

\* the provider answers both requests alike
TwinSearchYoutubeReturns(o) ==
    /\ slot[1].pc = "search_youtube"
    /\ slot' = [s \in Slots |->
                  IF slot[s].pc = "search_youtube"
                  THEN AfterSearchYoutube(Faulted(slot[s], o), o) ELSE slot[s]]
    /\ UNCHANGED <<now, state_rate_limit, state_cache, gmaps, retry, hist, lastRL,
                   lastSet, lastGet>>

TwinExtractAudioReturns(o) ==
    /\ slot[1].pc = "extract_audio_info"
    /\ slot' = [s \in Slots |->
                  IF slot[s].pc = "extract_audio_info"
                  THEN AfterExtractAudio(Faulted(slot[s], o), o) ELSE slot[s]]
    /\ UNCHANGED <<now, state_rate_limit, state_cache, gmaps, retry, hist, lastRL,
                   lastSet, lastGet>>

TwinPlacesReturns(o) ==
    /\ slot[1].pc = "places"
    /\ slot' = [s \in Slots |->
                  IF slot[s].pc = "places"
                  THEN AfterPlaces(Faulted(slot[s], o), o) ELSE slot[s]]
    /\ UNCHANGED <<now, state_rate_limit, state_cache, gmaps, retry, hist, lastRL,
                   lastSet, lastGet>>

TwinRespond ==
    /\ slot[1].pc = "done"
    /\ slot' = [s \in Slots |-> IdleSlot]
    /\ UNCHANGED <<now, state_rate_limit, state_cache, gmaps, retry, hist, lastRL,
                   lastSet, lastGet>>

NextTwin ==
    \/ \E req \in IvrRequests({"10.0.0.1"}) : TwinReceive(req)
    \/ \E o \in YoutubeOutcomes : TwinSearchYoutubeReturns(o)
    \/ \E o \in AudioOutcomes : TwinExtractAudioReturns(o)
    \/ \E o \in PlacesOutcomes : TwinPlacesReturns(o)
    \/ TwinRespond

SpecTwin == Init /\ [][NextTwin]_vars

-----------------------------------------------------------------------------
(* Two requests of one caller in flight, interleaved at the provider calls *)

\* Receive with the admissions of each caller recorded in hist
ReceiveRecorded(s, req) ==
    /\ slot[s].pc = "idle"
    /\ state_rate_limit' = rate_limit(state_rate_limit, req.ip, now, limit, window)
    /\ slot' = [slot EXCEPT ![s] = global_middleware(req, state_rate_limit, now, gmaps)]
    /\ hist' = [hist EXCEPT ![req.ip] =
                   IF RateLimitRaises(state_rate_limit, req.ip, now, limit, window)
                   THEN @ ELSE Append(@, now)]
    /\ UNCHANGED <<now, state_cache, gmaps, retry, lastRL, lastSet, lastGet>>

PlaceRequests(ips) ==
    [path : {IvrPath}, ip : ips, ApiPhone : {<<>>}, DTMF : {<<"2">>},
     search_query : {Song}, hangup : {""}, query : {None}]

NextConcurrent ==
    \/ Tick(window)
    \/ \E s \in Slots, req \in PlaceRequests({"10.0.0.1"}) : ReceiveRecorded(s, req)
    \/ \E s \in Slots : PlacesReturns(s, "hit")
    \/ \E s \in Slots : Respond(s)

SpecConcurrent == Init /\ [][NextConcurrent]_vars

-----------------------------------------------------------------------------
(* Two phone callers behind one client host *)

\* the caller whose own admissions are followed
CallerA == <<"0", "5">>

\* Receive, with the admissions of requests that carry ApiPhone = CallerA
\* recorded in hist
ReceiveFromCaller(s, req) ==
    /\ slot[s].pc = "idle"
    /\ state_rate_limit' = rate_limit(state_rate_limit, req.ip, now, limit, window)
    /\ slot' = [slot EXCEPT ![s] = global_middleware(req, state_rate_limit, now, gmaps)]
    /\ hist' = [hist EXCEPT ![req.ip] =
                   IF \/ RateLimitRaises(state_rate_limit, req.ip, now, limit, window)
                      \/ req.ApiPhone # CallerA
                   THEN @ ELSE Append(@, now)]
    /\ UNCHANGED <<now, state_cache, gmaps, retry, lastRL, lastSet, lastGet>>

MenuRequests(ips) ==
    [path : {IvrPath}, ip : ips, ApiPhone : Phones, DTMF : {None},
     search_query : {None}, hangup : {""}, query : {None}]

NextCallers ==
    \/ \E req \in MenuRequests({"10.0.0.1"}) : ReceiveFromCaller(1, req)
    \/ Respond(1)

SpecCallers == Init /\ [][NextCallers]_vars

-----------------------------------------------------------------------------
(* The same request after different histories of earlier requests *)

HistoryRequests(ips) ==
    {req \in [path : {IvrPath}, ip : ips, ApiPhone : {<<>>}, DTMF : {None, <<"3">>},
              search_query : {None, Song}, hangup : {""}, query : {None}] :
        req.DTMF = None => req.search_query = None}

NextHistory ==
    \/ \E req \in HistoryRequests({"10.0.0.1"}) : Receive(1, req)
    \/ \E req \in HistoryRequests({"10.0.0.2"}) : Receive(2, req)
    \/ \E s \in Slots, o \in YoutubeOutcomes : SearchYoutubeReturns(s, o)
    \/ \E s \in Slots, o \in AudioOutcomes : ExtractAudioReturns(s, o)
    \/ \E s \in Slots : Respond(s)

SpecHistory == Init /\ [][NextHistory]_vars

-----------------------------------------------------------------------------
(* The AI stub on long spoken texts *)

Fill(n) == [i \in 1..n |-> "a"]

\* spoken texts around the length at which the AI reply reaches the trim limit
QueryLengths == {2, TrimLimit - Len(AiReplyText(<<>>)),
                 TrimLimit - Len(AiReplyText(<<>>)) + 1, TrimLimit + 1}

LongIvrRequests ==
    [path : {IvrPath}, ip : {"10.0.0.1"}, ApiPhone : {<<>>},
     DTMF : {<<"4">>, <<"5">>}, search_query : {None} \cup {Fill(n) : n \in QueryLengths},
     hangup : {""}, query : {None}]

NextTrim ==
    \/ Tick(window)
    \/ \E req \in LongIvrRequests : Receive(1, req)
    \/ Respond(1)

SpecTrim == Init /\ [][NextTrim]_vars

-----------------------------------------------------------------------------
(* retry_request on its own (src/app.py 96-103) *)

retries == 3

BackoffDoubled(attempt) == 2 ^ (attempt + 1)

\* await asyncio.sleep(2 ** attempt)
Backoff(attempt) == 2 ^ attempt

IsLastAttemptOffByOne(attempt, n) == attempt = n

\* if attempt == retries - 1: raise
IsLastAttempt(attempt, n) == attempt = n - 1

\* the longest a call can sleep in all
TotalBackoff(n) == 2 ^ (n - 1) - 1

\* retry_request(func) is called: for attempt in range(retries), first pass
RetryStart ==
    /\ retry.pc = "idle"
    /\ now + TotalBackoff(retries) <= MaxNow
    /\ retry' = [IdleRetry EXCEPT !.pc = "call"]
    /\ UNCHANGED <<now, state_rate_limit, state_cache, gmaps, slot, hist,
                   lastRL, lastSet, lastGet>>

\* return await func(): func returns value
FuncReturns(value) ==
    /\ retry.pc = "call"
    /\ retry' = [retry EXCEPT !.pc = "returned", !.result = value,
                              !.outcomes = Append(@, "ok")]
    /\ UNCHANGED <<now, state_rate_limit, state_cache, gmaps, slot, hist,
                   lastRL, lastSet, lastGet>>

\* func raises an Exception: re-raised on the last attempt, slept on otherwise
FuncRaises ==
    /\ retry.pc = "call"
    /\ retry' = IF IsLastAttempt(retry.attempt, retries)
                THEN [retry EXCEPT !.pc = "raised", !.outcomes = Append(@, "fail")]
                ELSE [retry EXCEPT !.pc = "sleep", !.outcomes = Append(@, "fail"),
                                   !.sleeps = Append(@, Backoff(retry.attempt))]
    /\ UNCHANGED <<now, state_rate_limit, state_cache, gmaps, slot, hist,
                   lastRL, lastSet, lastGet>>

\* the sleep is over: the next pass of the loop
SleepEnds ==
    /\ retry.pc = "sleep"
    /\ now' = now + retry.sleeps[Len(retry.sleeps)]
    /\ retry' = [retry EXCEPT !.pc = "call", !.attempt = @ + 1]
    /\ UNCHANGED <<state_rate_limit, state_cache, gmaps, slot, hist,
                   lastRL, lastSet, lastGet>>

\* the caller has the result or the exception
RetryOver ==
    /\ retry.pc \in {"returned", "raised"}
    /\ retry' = IdleRetry
    /\ UNCHANGED <<now, state_rate_limit, state_cache, gmaps, slot, hist,
                   lastRL, lastSet, lastGet>>

NextRetry ==
    \/ RetryStart
    \/ \E v \in Values : FuncReturns(v)
    \/ FuncRaises
    \/ SleepEnds
    \/ RetryOver

\* every await of the loop completes: func returns or raises, the sleep ends
SpecRetry ==
    /\ Init /\ [][NextRetry]_vars
    /\ WF_vars((\E v \in Values : FuncReturns(v)) \/ FuncRaises)
    /\ WF_vars(SleepEnds)

-----------------------------------------------------------------------------
(* The properties *)

\* the field carries a value: it is given, not empty and not the sentinel
Present(x) == x # None /\ x # <<>> /\ x # Sentinel
Absent(x) == ~Present(x)

\* the text holds none of the blocked terms, in any letter case
is_safe_spec(text) ==
    ~ \E k \in 1..Len(forbidden) :
        \E i \in 1..Len(text) :
            /\ i + Len(forbidden[k]) - 1 <= Len(text)
            /\ \A j \in 1..Len(forbidden[k]) :
                  LowerChar(text[i + j - 1]) = forbidden[k][j]

\* slot s holds an /ivr request that has arrived
IvrRequest(s) == slot[s].pc # "idle" /\ slot[s].req.path = IvrPath

IsMenuState(req) ==
    req.hangup # "yes" /\ Absent(req.DTMF) /\ Absent(req.search_query)
IsAwaitingSpeech(req) ==
    req.hangup # "yes" /\ Present(req.DTMF) /\ Absent(req.search_query)
IsExecuting(req) ==
    req.hangup # "yes" /\ Present(req.search_query)

\* a read= directive that captures speech into search_query
IsSpeechPrompt(body) ==
    Len(body) >= 3 /\ body[1] = "read=t-" /\ body[3] = SpeechCapture
\* the DTMF=.. a speech prompt carries
PayloadDTMF(body) == SubSeq(body, 4, Len(body))
\* a read= directive that captures one keypad digit into DTMF
IsKeypadPrompt(body) ==
    Len(body) = 3 /\ body[1] = "read=t-" /\ body[3] = "=DTMF,yes,1,1,1,Digits,no"
IsMessage(body) == Len(body) >= 2 /\ body[1] = "id_list_message=t-"

\* C1 as stated: every /ivr request with hangup = "yes" is answered with the
\* empty body, and no provider is called for it
C1_Original ==
    \A s \in Slots :
        IvrRequest(s) /\ slot[s].req.hangup = "yes" =>
            /\ slot[s].pc = "done"
            /\ slot[s].resp = PlainTextResponse(<<>>)
            /\ slot[s].calls = <<>>

\* C1 amended: every /ivr request with hangup = "yes" that the throttle admits
\* is answered with the empty body, whatever DTMF, search_query and ApiPhone
\* are, and no provider is called for any request with hangup = "yes"
C1_HangupEmpty ==
    \A s \in Slots :
        IvrRequest(s) /\ slot[s].req.hangup = "yes" =>
            /\ slot[s].pc = "done"
            /\ slot[s].admitted => slot[s].resp = PlainTextResponse(<<>>)
            /\ slot[s].calls = <<>>

C1_Witness ==
    /\ IvrRequest(1) /\ slot[1].admitted
    /\ slot[1].req.hangup = "yes"
    /\ slot[1].req.DTMF = <<"3">> /\ slot[1].req.search_query = Song
    /\ slot[1].req.ApiPhone # <<>>
    /\ slot[1].resp = PlainTextResponse(<<>>)

\* C2 as stated: every /ivr request with DTMF and search_query absent and
\* hangup not "yes" is answered with the fixed MENU directive
C2_Original ==
    \A s \in Slots :
        IvrRequest(s) /\ IsMenuState(slot[s].req) =>
            /\ slot[s].pc = "done"
            /\ slot[s].resp = PlainTextResponse(MenuText)

\* C2 amended: every such request that the throttle admits is answered with
\* the one fixed MENU directive, a read= line capturing a keypad digit into
\* DTMF, so two such requests get identical responses; it is never a message
C2_Menu ==
    \A s \in Slots :
        IvrRequest(s) /\ IsMenuState(slot[s].req) /\ slot[s].admitted =>
            /\ slot[s].pc = "done"
            /\ slot[s].resp = PlainTextResponse(MenuText)
            /\ IsKeypadPrompt(slot[s].resp.body)
            /\ slot[s].calls = <<>>

C2_Witness ==
    /\ IvrRequest(1) /\ slot[1].admitted
    /\ slot[1].req.hangup = "" /\ slot[1].req.DTMF = None
    /\ slot[1].req.search_query = None
    /\ IsKeypadPrompt(slot[1].resp.body)
    /\ Len(Records(state_rate_limit, slot[1].req.ip)) > 1

\* C3 as stated: in AWAITING_SPEECH every DTMF not bound to a skill is
\* answered with the fixed "invalid selection" message
C3_Original ==
    \A s \in Slots :
        /\ IvrRequest(s) /\ IsAwaitingSpeech(slot[s].req)
        /\ slot[s].req.DTMF \notin MenuDigits
        => /\ slot[s].pc = "done"
           /\ slot[s].resp = PlainTextResponse(InvalidChoiceMsg)

\* C3 amended: in AWAITING_SPEECH every DTMF not bound to a skill is answered,
\* when the throttle admits the request, with the fixed "invalid selection"
\* message, and in no case with a read= speech prompt
C3_InvalidSelection ==
    \A s \in Slots :
        /\ IvrRequest(s) /\ IsAwaitingSpeech(slot[s].req)
        /\ slot[s].req.DTMF \notin MenuDigits
        => /\ slot[s].pc = "done"
           /\ slot[s].admitted => slot[s].resp = PlainTextResponse(InvalidChoiceMsg)
           /\ IsMessage(slot[s].resp.body)
           /\ ~IsSpeechPrompt(slot[s].resp.body)
           /\ slot[s].calls = <<>>

C3_Witness ==
    /\ IvrRequest(1) /\ slot[1].admitted
    /\ slot[1].req.hangup = "" /\ slot[1].req.DTMF = <<"9">>
    /\ slot[1].req.search_query = None
    /\ slot[1].resp = PlainTextResponse(InvalidChoiceMsg)

\* C4: a speech prompt is returned for every admitted AWAITING_SPEECH request
\* whose DTMF d is bound to a skill; every speech prompt returned captures
\* into search_query and carries DTMF=d, d the DTMF of the request it answers
C4_PromptEchoesDTMF ==
    \A s \in Slots :
        /\ /\ IvrRequest(s) /\ IsAwaitingSpeech(slot[s].req)
           /\ slot[s].req.DTMF \in MenuDigits /\ slot[s].admitted
           => slot[s].pc = "done" /\ IsSpeechPrompt(slot[s].resp.body)
        /\ IvrRequest(s) /\ IsSpeechPrompt(slot[s].resp.body)
           => /\ IsAwaitingSpeech(slot[s].req)
              /\ PayloadDTMF(slot[s].resp.body) = slot[s].req.DTMF

C4_Witness ==
    /\ IvrRequest(1) /\ slot[1].req.DTMF = <<"3">>
    /\ slot[1].req.search_query = None
    /\ IsSpeechPrompt(slot[1].resp.body)
    /\ PayloadDTMF(slot[1].resp.body) = <<"3">>

\* the digits step 3 executes a skill for (lines 209, 227, 240)
ExecutedDigits == { <<"2">>, <<"3">>, <<"5">> }

\* C5: in EXECUTING, an admitted request whose DTMF is absent or has no skill
\* execution bound to it is answered with the "system trouble" message
C5_Original ==
    \A s \in Slots :
        /\ IvrRequest(s) /\ IsExecuting(slot[s].req) /\ slot[s].admitted
        /\ Absent(slot[s].req.DTMF) \/ slot[s].req.DTMF \notin ExecutedDigits
        => /\ slot[s].pc = "done"
           /\ slot[s].resp = PlainTextResponse(SystemErrorMsg)

\* C6 as stated: when a provider call of an /ivr request raises, the response
\* is the "system trouble, please try again" message
C6_Original ==
    \A s \in Slots :
        IvrRequest(s) /\ slot[s].pc = "done" /\ slot[s].fault # "" =>
            slot[s].resp = PlainTextResponse(SystemErrorMsg)

\* C6 amended: when a provider call of an /ivr request raises, the response is
\* a 200 plain-text, non-empty id_list_message directive: the "system trouble,
\* please try again" message when the exception leaves the provider's wrapper,
\* the "no results on youtube" or "cannot produce a playable link" message
\* when search_youtube or extract_audio_info catches it
C6_FaultGivesMessage ==
    \A s \in Slots :
        IvrRequest(s) /\ slot[s].fault # "" =>
            /\ slot[s].pc = "done"
            /\ slot[s].resp.status = 200
            /\ IsMessage(slot[s].resp.body)
            /\ slot[s].fault = "raise" => slot[s].resp.body = SystemErrorMsg
            /\ slot[s].fault = "caught" =>
                  slot[s].resp.body \in
                      {NoYoutubeResultsMsg, NoAudioLinkMsg(slot[s].title)}

C6_Witness ==
    /\ IvrRequest(1) /\ slot[1].req.DTMF = <<"2">>
    /\ slot[1].fault = "raise"
    /\ slot[1].calls = << <<"places", Song>> >>
    /\ slot[1].resp = PlainTextResponse(SystemErrorMsg)

\* C8: a request to /ivr that the throttle rejects is answered with the 200
\* plain-text "too many requests" message; the handler does not run for it
\* and no provider is called
C8_ThrottledIvr ==
    \A s \in Slots :
        IvrRequest(s) /\ ~slot[s].admitted =>
            /\ slot[s].pc = "done"
            /\ slot[s].resp = PlainTextResponse(TooManyMsg)
            /\ slot[s].resp.status = 200 /\ IsMessage(slot[s].resp.body)
            /\ slot[s].calls = <<>>

C8_Witness ==
    /\ IvrRequest(1) /\ ~slot[1].admitted
    /\ slot[1].req.DTMF = <<"3">> /\ slot[1].req.search_query = Song
    /\ slot[1].req.hangup = ""
    /\ Len(state_rate_limit[slot[1].req.ip]) = limit
    /\ slot[1].resp = PlainTextResponse(TooManyMsg)

\* the request asks an entry point to execute a capability on text: a query
\* endpoint on its query, /ivr in EXECUTING with a digit that has an execution
ExecutesOn(sl, text) ==
    /\ sl.pc # "idle" /\ sl.admitted /\ Present(text)
    /\ \/ sl.req.path # IvrPath /\ text = sl.req.query
       \/ /\ sl.req.path = IvrPath /\ text = sl.req.search_query
          /\ sl.req.hangup # "yes" /\ sl.req.DTMF \in ExecutedDigits

\* C10: for every entry point that executes a capability, a query that holds
\* a blocked term in any letter case gets the blocked outcome (never a reply
\* built from the query) and no provider is called with it
C10_Original ==
    \A s \in Slots : \A text \in {Blocked} :
        ExecutesOn(slot[s], text) /\ ~is_safe_spec(text) =>
            /\ slot[s].pc = "done"
            /\ slot[s].calls = <<>>
            /\ slot[s].req.path # IvrPath => slot[s].resp = InvalidContent
            /\ slot[s].resp.body # AiReply(text)

-----------------------------------------------------------------------------
(* Properties of rate_limit, under SpecThrottle *)

\* the admitted calls of ip whose timestamps are less than `window` old at t
InWindow(ip, t) == {i \in 1..Len(hist[ip]) : t - hist[ip][i] < window}

\* C7: a call is rejected exactly when `limit` calls of the caller were
\* admitted less than `window` seconds before it, so the first `limit` calls
\* of a span are admitted, the next one in the span is rejected, and a call
\* is admitted again once the oldest of them is `window` seconds old; the
\* `limit`-th admitted call after any admitted call comes at least `window`
\* seconds after it, so no shorter span holds more than `limit` admitted calls
C7_SlidingWindow ==
    /\ lastRL.ip # "" =>
          IF lastRL.raised
          THEN Cardinality(InWindow(lastRL.ip, now)) = limit
          ELSE /\ Cardinality(InWindow(lastRL.ip, now)) <= limit
               /\ hist[lastRL.ip][Len(hist[lastRL.ip])] = now
    /\ \A ip \in IPs : \A i \in 1..(Len(hist[ip]) - limit) :
          hist[ip][i + limit] - hist[ip][i] >= window

C7_Witness ==
    /\ lastRL.ip # "" /\ ~lastRL.raised /\ now = window
    /\ Len(hist[lastRL.ip]) = limit + 1
    /\ hist[lastRL.ip][limit] = 0
    /\ state_rate_limit[lastRL.ip] = <<now>>

-----------------------------------------------------------------------------
(* Properties of the cache, under SpecCache *)

\* C9: get_cache(key) returns the value of the latest set_cache(key, ..) when
\* at most TTL seconds have passed since it, and absent when more have passed
\* (on every later read too, until the key is set again) or the key was never
\* set
C9_CacheRoundTrip ==
    lastGet.key # "" =>
        LET set == lastSet[lastGet.key]
        IN  IF set = None THEN lastGet.data = None
            ELSE IF now - set[2] <= TTL THEN lastGet.data = set[1]
            ELSE lastGet.data = None /\ lastGet.key \notin DOMAIN state_cache

C9_Witness ==
    /\ lastGet.key # "" /\ lastSet[lastGet.key] # None
    /\ now - lastSet[lastGet.key][2] = TTL
    /\ lastGet.data = lastSet[lastGet.key][1]
    /\ lastGet.data # None

-----------------------------------------------------------------------------
(* Properties of the sentinel normalisation, under SpecTwin *)

\* C11: an /ivr request whose DTMF or search_query is "%val%" or the empty
\* string is handled, at every step, exactly as the same request with that
\* field omitted: same position in the handler, same provider calls, same
\* response, whatever the other fields are
C11_SentinelIsAbsent ==
    slot[1].pc # "idle" =>
        /\ slot[2].req = Canon(slot[1].req)
        /\ slot[2].pc = slot[1].pc
        /\ slot[2].calls = slot[1].calls
        /\ slot[2].resp = slot[1].resp

C11_Witness ==
    /\ slot[1].pc = "done" /\ slot[1].admitted
    /\ slot[1].req.DTMF = Sentinel /\ slot[1].req.search_query = <<>>
    /\ slot[1].req.hangup = ""
    /\ slot[2].req.DTMF = None /\ slot[2].req.search_query = None
    /\ slot[1].resp = PlainTextResponse(MenuText)
    /\ slot[2].resp = PlainTextResponse(MenuText)

\* the waits of a call whose first n attempts failed and were slept on
Doubling(n) == [k \in 1..n |-> 2 ^ (k - 1)]

AllFailed(outcomes) == \A i \in 1..Len(outcomes) : outcomes[i] = "fail"

\* the attempts made so far, the running one included
Attempts == IF retry.pc = "call" THEN Len(retry.outcomes) + 1 ELSE Len(retry.outcomes)

RetryRecordOk ==
    /\ Attempts <= retries
    /\ \A i \in 1..(Len(retry.outcomes) - 1) : retry.outcomes[i] = "fail"
    /\ retry.pc = "returned" =>
           /\ retry.outcomes[Len(retry.outcomes)] = "ok"
           /\ retry.result \in Values
           /\ retry.sleeps = Doubling(Len(retry.outcomes) - 1)
    /\ retry.pc \in {"call", "sleep"} =>
           /\ AllFailed(retry.outcomes)
           /\ retry.sleeps = Doubling(Len(retry.outcomes))
    /\ retry.pc = "raised" <=>
           /\ Len(retry.outcomes) = retries
           /\ AllFailed(retry.outcomes)

\* C12 as stated: a call whose attempts all fail has waited 1 s, 2 s and 4 s
\* before it surfaces the failure.
C12_Original ==
    /\ RetryRecordOk
    /\ retry.pc = "raised" => retry.sleeps = <<1, 2, 4>>

\* C12: retry_request invokes func at most 3 times and stops at the first
\* success, whose result it returns; after failed attempt k that is not the
\* last it waits 2^k seconds, so a call whose 3 attempts all fail has waited
\* 1 s and then 2 s (never 4 s) when it surfaces the failure, and it surfaces
\* one only then; every call ends, returning or raising.
C12_Retry ==
    /\ [](RetryRecordOk /\ (retry.pc = "raised" => retry.sleeps = <<1, 2>>))
    /\ (retry.pc = "call") ~> (retry.pc \in {"returned", "raised"})

C12_Witness ==
    /\ retry.pc = "raised"
    /\ retry.outcomes = <<"fail", "fail", "fail">>
    /\ retry.sleeps = <<1, 2>>

\* the free text of a message directive, after "id_list_message=t-"
MessageText(body) == Tail(body)

\* C13 as stated: the text placed in an id_list_message directive never has
\* more than 400 characters.
C13_Original ==
    \A s \in Slots :
        (slot[s].pc = "done" /\ IsMessage(slot[s].resp.body)) =>
            Len(MessageText(slot[s].resp.body)) <= TrimLimit

\* C14: with two requests of a caller in flight, interleaved at the provider
\* calls, no admission is lost: the caller's record is exactly the tail of
\* its admissions, every admission missing from it is at least `window`
\* seconds old, the `limit`-th admission after any admission comes at least
\* `window` seconds after it, an admitted request in flight has run no
\* rate_limit step of its own since, and the cache is untouched.
C14_NoLostUpdate ==
    /\ \A ip \in IPs :
          LET h == hist[ip]
              r == Records(state_rate_limit, ip)
          IN  /\ Len(r) <= Len(h)
              /\ r = SubSeq(h, Len(h) - Len(r) + 1, Len(h))
              /\ \A i \in 1..(Len(h) - Len(r)) : now - h[i] >= window
              /\ \A i \in 1..(Len(h) - limit) : h[i + limit] - h[i] >= window
    /\ \A s \in Slots :
          (slot[s].pc # "idle" /\ slot[s].admitted) => hist[slot[s].req.ip] # <<>>
    /\ state_cache = <<>>

C14_Witness ==
    /\ slot[1].pc = "places" /\ slot[2].pc = "done"
    /\ slot[1].admitted /\ ~slot[2].admitted
    /\ now = window
    /\ Len(state_rate_limit["10.0.0.1"]) = limit
    /\ Len(hist["10.0.0.1"]) = 2 * limit

\* C15 as stated: a place lookup is answered with a "not found" or error
\* message only when every provider is exhausted, i.e. after a second
\* provider was tried behind the one that was unavailable, raised or
\* returned nothing.
C15_Original ==
    \A s \in Slots :
        /\ IvrRequest(s) /\ slot[s].pc = "done" /\ slot[s].admitted
        /\ IsExecuting(slot[s].req) /\ slot[s].req.DTMF = <<"2">>
        /\ slot[s].resp \in {PlainTextResponse(PlaceNotFoundMsg),
                             PlainTextResponse(SystemErrorMsg),
                             PlainTextResponse(NoLocationServiceMsg)}
        => Len(slot[s].calls) >= 2

\* the digits step 2 answers with a speech prompt
PromptedDigits ==
    {d \in DTMFs : IsSpeechPrompt(AwaitingSpeech(IdleSlot, d).resp.body)}

\* C16 as stated: for every digit that yields a speech prompt, the admitted
\* request that echoes the digit with the spoken text runs the digit's skill
\* and never falls through to the branch that executes nothing.
C16_Original ==
    \A s \in Slots :
        /\ IvrRequest(s) /\ slot[s].pc = "done" /\ slot[s].admitted
        /\ IsExecuting(slot[s].req) /\ slot[s].req.DTMF \in PromptedDigits
        => slot[s].resp # PlainTextResponse(BackToMenuMsg)

\* C17 as stated: a request of caller A is rejected only on account of A's
\* own earlier requests: when the throttle rejects it, `limit` requests of
\* A itself were admitted before it.
C17_Original ==
    \A s \in Slots :
        /\ IvrRequest(s) /\ slot[s].pc = "done" /\ ~slot[s].admitted
        /\ slot[s].req.ApiPhone = CallerA
        => Len(hist[slot[s].req.ip]) >= limit

\* the fields of the request the ivr handler is given
IvrFields(req) == <<req.ApiPhone, req.DTMF, req.search_query, req.hangup>>

\* slot s holds the response of the ivr handler
HandlerAnswered(s) == IvrRequest(s) /\ slot[s].pc = "done" /\ slot[s].admitted

\* C18: no dialog state is kept between requests: two /ivr requests with the
\* same fields that the handler answers after the same provider replies get
\* the same response, whatever requests were handled before each of them;
\* and no step of handling a request changes the cache, the gmaps client or
\* the throttle record of any caller but the one whose request just arrived.
C18_NoDialogState ==
    /\ [](\A s, t \in Slots :
            /\ HandlerAnswered(s) /\ HandlerAnswered(t)
            /\ IvrFields(slot[s].req) = IvrFields(slot[t].req)
            /\ slot[s].replies = slot[t].replies
            => slot[s].resp = slot[t].resp)
    /\ [][/\ state_cache' = state_cache
          /\ gmaps' = gmaps
          /\ \A ip \in IPs :
                Records(state_rate_limit', ip) # Records(state_rate_limit, ip) =>
                    \E s \in Slots : /\ slot[s].pc = "idle" /\ slot'[s].pc # "idle"
                                     /\ slot'[s].req.ip = ip]_vars

C18_Witness ==
    /\ HandlerAnswered(1) /\ HandlerAnswered(2)
    /\ slot[1].req.DTMF = <<"3">> /\ slot[1].req.search_query = Song
    /\ IvrFields(slot[1].req) = IvrFields(slot[2].req)
    /\ slot[1].replies = <<"hit", "caught">> /\ slot[2].replies = <<"hit", "caught">>
    /\ Len(state_rate_limit["10.0.0.1"]) = limit
    /\ state_rate_limit["10.0.0.2"] = <<0>>
    /\ slot[1].resp = PlainTextResponse(NoAudioLinkMsg(Title))

\* the entry stored under key is older than the TTL
Stale(key) == key \in DOMAIN state_cache /\ now - state_cache[key][2] > TTL

\* the cache without the entry of key
Without(key) == [k \in DOMAIN state_cache \ {key} |-> state_cache[k]]

\* C19: a get_cache(key) that finds the entry of key older than the TTL
\* removes exactly that entry and returns absent; a get_cache of a fresh or
\* missing key leaves the cache as it is; the entry of a key is removed only
\* by such a read of that key and is stored or replaced only by a set_cache
\* of that key, so an expired entry stays in the map until then.
C19_LazyLocalExpiry ==
    [][/\ lastGet'.key # "" /\ Stale(lastGet'.key) =>
              /\ state_cache' = Without(lastGet'.key)
              /\ lastGet'.data = None
       /\ lastGet'.key # "" /\ ~Stale(lastGet'.key) => state_cache' = state_cache
       /\ \A k \in Keys :
              /\ k \in DOMAIN state_cache /\ k \notin DOMAIN state_cache' =>
                     lastGet'.key = k /\ Stale(k)
              /\ /\ k \in DOMAIN state_cache'
                 /\ k \notin DOMAIN state_cache \/ state_cache'[k] # state_cache[k]
                 => /\ lastSet'[k] # None
                    /\ state_cache'[k] = <<lastSet'[k][1], now>>
                    /\ lastGet'.key = ""]_vars

C19_Witness ==
    /\ lastGet = [key |-> "k1", data |-> None]
    /\ lastSet["k1"] # None
    /\ DOMAIN state_cache = {"k2"}
    /\ now - state_cache["k2"][2] > TTL

\* seq is what is left of old when entries are dropped from its front
IsTail(seq, old) ==
    Len(seq) <= Len(old) /\ seq = SubSeq(old, Len(old) - Len(seq) + 1, Len(old))

\* C20: every caller's record holds at most `limit` timestamps in
\* non-decreasing order, all of them timestamps of admitted calls; right
\* after a call of the caller all of them are younger than `window`; a
\* rejected call appends nothing, it leaves the tail of the record it found,
\* and it is rejected only while the `limit`-th latest admitted call is
\* younger than `window`, however many rejected calls came since.
C20_RecordShape ==
    /\ [](\A ip \in DOMAIN state_rate_limit :
            LET r == state_rate_limit[ip]
            IN  /\ Len(r) <= limit
                /\ \A i \in 1..(Len(r) - 1) : r[i] <= r[i + 1]
                /\ IsTail(r, hist[ip])
                /\ lastRL.ip = ip => \A i \in 1..Len(r) : now - r[i] < window
                /\ lastRL.ip = ip /\ lastRL.raised =>
                       /\ Len(r) = limit
                       /\ now - hist[ip][Len(hist[ip]) - limit + 1] < window)
    /\ [][\A ip \in IPs :
            lastRL'.ip = ip /\ lastRL'.raised =>
                IsTail(Records(state_rate_limit', ip), Records(state_rate_limit, ip))]_vars

C20_Witness ==
    /\ lastRL = [ip |-> "10.0.0.1", raised |-> TRUE]
    /\ now = 2 * window - 1
    /\ Len(hist["10.0.0.1"]) = limit + 1
    /\ hist["10.0.0.1"][1] = 0
    /\ state_rate_limit["10.0.0.1"][1] = window
    /\ state_rate_limit["10.0.0.1"][limit] = 2 * window - 1

=============================================================================
